---- MODULE Spec2Model ----
(***************************************************************************)
(* Model of the Thames Water client of HA-Thames-Water:                    *)
(*   - class ThamesWater (thameswater.py): the login sequence              *)
(*     _authenticate_sync, the consumption query _get_meter_usage_sync and *)
(*     the entry point get_meter_usage;                                    *)
(*   - meter_usage_lines_to_timeseries (thameswater.py): the loop that     *)
(*     resolves hour labels to dated, fold-marked timestamps.              *)
(* Every HTTP response is an input chosen by the environment.              *)
(***************************************************************************)
EXTENDS Integers, Sequences, FiniteSets, TLC

\* ------------------------------------------------------------------ bounds
\* calls of get_meter_usage made on one ThamesWater instance
MaxCalls == 3
\* rows of one input of meter_usage_lines_to_timeseries
MaxLines == 4
\* whole days of one input of meter_usage_lines_to_timeseries
MaxDays == 2

\* --------------------------------------------------------------- vocabulary
\* An unset attribute / absent cookie, and a present value.
None == <<>>
Some(v) == <<v>>

\* Callers of get_meter_usage on the one instance.  The call sites of the
\* repository await each call before making the next one, so the sequential
\* specification runs the first caller only.
Callers == {"c1", "c2"}
SeqCallers == {"c1"}

\* requests.get / requests.post: a 2xx response, a 4xx/5xx response (an
\* exception only where raise_for_status is called), or no response at all
\* (requests raises ConnectionError / Timeout itself).
Statuses == {"ok", "http_error", "conn_error"}

CookieTrans == "x-ms-cpim-trans"
CookieCsrf == "x-ms-cpim-csrf"
CookieB2c == "b2cAuthenticated"
CorrelationCookies == {CookieTrans, CookieCsrf}
CookieNames == CorrelationCookies \cup {CookieB2c}

VARIABLES
    authenticated,          \* self._authenticated
    pkce_verifier,          \* self.pkce_verifier (None until _generate_pkce)
    pkce_challenge,         \* self.pkce_challenge
    cookies,                \* self.s.cookies: cookie name -> None | Some(value)
    oauth_request_tokens,   \* self.oauth_request_tokens
    oauth_response_tokens,  \* self.oauth_response_tokens
    urandom,                \* number of os.urandom draws so far (each draw is fresh)
    pc,                     \* pc[c]: the statement caller c is about to execute
    locals,                 \* locals[c]: local variables of _authenticate_sync
    calls,                  \* get_meter_usage calls started on the instance
    call,                   \* call[c]: record of c's current / last call
    log,                    \* log[c]: the requests of c's current / last login attempt
    history,                \* what earlier login attempts left behind
    queries,                \* consumption queries sent so far
    lines,                  \* meter_usage_lines_to_timeseries: argument lines
    start,                  \* argument start: [date, tzinfo]
    tz,                     \* argument tz
    npc,                    \* position in meter_usage_lines_to_timeseries
    idx,                    \* index of the next line of the for loop
    current_date,           \* current_date, in days from start.date()
    prev_hour,              \* prev_hour
    seen_hours,             \* seen_hours
    results,                \* results
    initial_reading,        \* _generate_statistics_from_meter_usage: argument
    stats,                  \* the list it returns
    fpc,                    \* position in handle_fill_historical_data
    start_date,             \* call.data["start_date"], in days
    end_date,               \* call.data["end_date"], in days
    chunk_start,            \* chunk_start
    chunk_end,              \* chunk_end
    end_dt,                 \* end_dt
    all_stats,              \* all_stats
    initial_reading_set,    \* initial_reading_set
    hass_initial_reading,   \* hass.data[DOMAIN]["initial_reading"], in tenths
    cost_per_cubic_metre,   \* hass.data[DOMAIN]["cost_per_cubic_metre"]
    injected,               \* what async_add_external_statistics was given
    fetches,                \* the chunks requested so far and how each ended
    upc,                    \* position in ThamesWaterSensor.async_update
    sensor_state,           \* the sensor's self._state, in tenths
    updates,                \* the async_update calls so far and how each ended
    entry_state,            \* entry_state[e]: where config entry e is in its life
    domain_data,            \* hass.data[DOMAIN]: key -> the kind of value it holds
    has_service,            \* hass.services.has_service(DOMAIN, "fill_historical_data")
    service_calls           \* setup, async_register and async_remove calls so far

authVars == <<authenticated, pkce_verifier, pkce_challenge, cookies,
              oauth_request_tokens, oauth_response_tokens, urandom, pc, locals,
              calls, call, log, history, queries>>
normVars == <<lines, start, tz, npc, idx, current_date, prev_hour, seen_hours, results>>
statVars == <<initial_reading, stats>>
\* what the ThamesWater instance does not touch
fillVars == <<fpc, start_date, end_date, chunk_start, chunk_end, end_dt, all_stats,
              initial_reading_set, hass_initial_reading, cost_per_cubic_metre,
              injected, fetches>>
sensorVars == <<upc, sensor_state, updates>>
lifeVars == <<entry_state, domain_data, has_service, service_calls>>
hassVars == <<sensorVars, lifeVars>>
envVars == <<normVars, statVars, fillVars, hassVars>>
vars == <<authVars, envVars>>

\* ------------------------------------------------------------ ThamesWater
\* hashlib.sha256 + urlsafe_b64encode + rstrip("="): a function of the
\* verifier, different from it.
PkceChallengeOf(verifier) == <<"S256", verifier>>

NoLocals == [trans_token |-> None, csrf_token |-> None, confirmation_code |-> None,
             state |-> None, id_token |-> None]
NoCall == [logins_before |-> 0, failed_before |-> 0, login_requests |-> 0,
           query_sent |-> FALSE, outcome |-> "none", result |-> <<>>]
NoHistory == [failed |-> 0, succeeded |-> 0, verifiers |-> {}, last_failed_stage |-> 0]

\* ThamesWater.__init__
AuthInit ==
    /\ authenticated = FALSE
    /\ pkce_verifier = None
    /\ pkce_challenge = None
    /\ cookies = [n \in CookieNames |-> None]
    /\ oauth_request_tokens = None
    /\ oauth_response_tokens = None
    /\ urandom = 0
    /\ pc = [c \in Callers |-> "idle"]
    /\ locals = [c \in Callers |-> NoLocals]
    /\ calls = 0
    /\ call = [c \in Callers |-> NoCall]
    /\ log = [c \in Callers |-> <<>>]
    /\ history = NoHistory
    /\ queries = <<>>

\* One entry of log[c]: request `req` of stage `stage` got `status`; `raised`
\* says whether the stage's function raised.  verifier / challenge: what the
\* request carried (None when it carries none); delivered: the cookies the
\* response set; content: the response held what the stage parses out of it;
\* fresh: the verifier was never generated before on this instance.
LogEntry(stage, req, status, raised) ==
    [stage |-> stage, req |-> req, status |-> status, raised |-> raised,
     verifier |-> None, challenge |-> None, code |-> None, delivered |-> {},
     content |-> TRUE, fresh |-> TRUE]

Last(s) == s[Len(s)]

\* The statements of _authenticate_sync in program order.
AuthenticateSyncOrder ==
    <<"pkce", "authorize", "self_asserted", "confirmed", "token", "refresh",
      "dashboard", "meters_usage", "signin", "follow", "login">>

IndexOf(seq, x) == CHOOSE i \in 1..Len(seq) : seq[i] = x

\* Mutant: the statement after the authorize request is skipped.
NextStatementSkips(at) ==
    LET i == IndexOf(AuthenticateSyncOrder, at)
    IN  IF i = Len(AuthenticateSyncOrder) THEN "query"
        ELSE IF at = "authorize" THEN AuthenticateSyncOrder[i + 2]
        ELSE AuthenticateSyncOrder[i + 1]

\* The statement after `at` in _authenticate_sync; after the last one
\* get_meter_usage goes on to the query.
NextStatement(at) ==
    LET i == IndexOf(AuthenticateSyncOrder, at)
    IN  IF i = Len(AuthenticateSyncOrder) THEN "query"
        ELSE AuthenticateSyncOrder[i + 1]

\* A login request of caller c has completed: the exception propagates out of
\* get_meter_usage (the call ends, nothing is cleaned up), or the next
\* statement runs.
Completed(c, entry, newLocals) ==
    /\ log' = [log EXCEPT ![c] = Append(@, entry)]
    /\ call' = [call EXCEPT ![c].login_requests = @ + 1,
                            ![c].outcome = IF entry.raised THEN "login_error" ELSE @]
    /\ pc' = [pc EXCEPT ![c] = IF entry.raised THEN "idle" ELSE NextStatement(entry.req)]
    /\ locals' = [locals EXCEPT ![c] = newLocals]
    /\ history' = [history EXCEPT
                     !.failed = IF entry.raised THEN @ + 1 ELSE @,
                     !.last_failed_stage = IF entry.raised THEN entry.stage ELSE @,
                     !.succeeded = IF ~entry.raised /\ entry.req = "login"
                                   THEN @ + 1 ELSE @,
                     !.verifiers = IF entry.req = "pkce"
                                   THEN @ \cup {entry.verifier[1]} ELSE @]

\* r.raise_for_status() after a request.
RaiseForStatus(status) == status # "ok"

\* A request whose response status is not looked at: only requests itself
\* can raise.
NoStatusCheck(status) == status = "conn_error"

\* Mutant: the flag is not tested, the query is sent straight away.
NeedsLoginNever == FALSE

\* Mutant: a call that finds a login in progress does not start its own.
NeedsLoginUnlessBusy == ~authenticated /\ \A d \in DOMAIN pc : pc[d] = "idle"

\* get_meter_usage line 268: `if not self._authenticated`
NeedsLogin == ~authenticated

\* get_meter_usage is entered: the flag is tested, and either the login
\* sequence or the query is handed to the executor.
StartCall(c) ==
    /\ pc[c] = "idle"
    /\ calls < MaxCalls
    /\ calls' = calls + 1
    /\ call' = [call EXCEPT ![c] = [logins_before |-> history.succeeded,
                                    failed_before |-> history.failed,
                                    login_requests |-> 0,
                                    query_sent |-> FALSE,
                                    outcome |-> "running",
                                    result |-> <<>>]]
    /\ IF NeedsLogin
       THEN /\ pc' = [pc EXCEPT ![c] = AuthenticateSyncOrder[1]]
            /\ log' = [log EXCEPT ![c] = <<>>]
            /\ locals' = [locals EXCEPT ![c] = NoLocals]
       ELSE /\ pc' = [pc EXCEPT ![c] = "query"]
            /\ UNCHANGED <<log, locals>>
    /\ UNCHANGED <<authenticated, pkce_verifier, pkce_challenge, cookies,
                   oauth_request_tokens, oauth_response_tokens, urandom,
                   history, queries>>

\* The call sites await one call before the next (__init__.py line 90,
\* sensor.py line 168).
SequentialStartCall(c) ==
    /\ \A d \in Callers : pc[d] = "idle"
    /\ StartCall(c)
    /\ UNCHANGED envVars

\* Two call sites use one instance without awaiting each other: each
\* enters get_meter_usage once, "c2" while the call of "c1" is running.
ConcurrentStartCall(c) ==
    /\ call[c].outcome = "none"
    /\ c # "c1" => call["c1"].outcome = "running"
    /\ StartCall(c)
    /\ UNCHANGED envVars

\* Mutant: a verifier generated earlier is kept and used again.
FreshVerifierCached == IF pkce_verifier # None THEN pkce_verifier[1] ELSE urandom + 1

\* os.urandom(32), base64-encoded: a value no earlier draw returned.
FreshVerifier == urandom + 1

\* _generate_pkce: a fresh random verifier and its challenge.
GeneratePkce(c) ==
    /\ pc[c] = "pkce"
    /\ urandom' = urandom + 1
    /\ pkce_verifier' = Some(FreshVerifier)
    /\ pkce_challenge' = Some(PkceChallengeOf(FreshVerifier))
    /\ Completed(c, [LogEntry(1, "pkce", "ok", FALSE) EXCEPT
                       !.verifier = Some(FreshVerifier),
                       !.challenge = Some(PkceChallengeOf(FreshVerifier)),
                       !.fresh = FreshVerifier \notin history.verifiers],
                 locals[c])
    /\ UNCHANGED <<authenticated, cookies, oauth_request_tokens,
                   oauth_response_tokens, calls, queries, envVars>>

\* requests stores the cookies of every response it receives in the
\* session's jar, whatever the status; cookies it does not receive stay.
\* The correlation cookies of an authorize response name the transaction
\* the server opened for the code_challenge of that request.
JarAfter(jar, delivered, value) ==
    [n \in CookieNames |-> IF n \in delivered THEN Some(value) ELSE jar[n]]

\* _authorize_b2c_1_tw_website_signin lines 86-87: raise_for_status, then
\* both cookies are looked up in the session's jar (KeyError when absent).
AuthorizeRaises(status, jar) ==
    \/ RaiseForStatus(status)
    \/ \E n \in CorrelationCookies : jar[n] = None

\* _authorize_b2c_1_tw_website_signin
Authorize(c) ==
    /\ pc[c] = "authorize"
    /\ \E status \in Statuses, delivered \in SUBSET CorrelationCookies :
          /\ status = "conn_error" => delivered = {}
          /\ LET jar == JarAfter(cookies, delivered, pkce_challenge[1])
                 raised == AuthorizeRaises(status, jar)
             IN  /\ cookies' = jar
                 /\ Completed(c, [LogEntry(2, "authorize", status, raised) EXCEPT
                                    !.challenge = pkce_challenge,
                                    !.delivered = delivered],
                              IF raised THEN locals[c]
                              ELSE [locals[c] EXCEPT !.trans_token = jar[CookieTrans],
                                                     !.csrf_token = jar[CookieCsrf]])
    /\ UNCHANGED <<authenticated, pkce_verifier, pkce_challenge, oauth_request_tokens,
                   oauth_response_tokens, urandom, calls, queries, envVars>>

\* Mutant: raise_for_status is missing, only a connection error raises.
SelfAssertedRaisesLax(status) == status = "conn_error"

\* _self_asserted_b2c_1_tw_website_signin lines 112-113
SelfAssertedRaises(status) == RaiseForStatus(status)

\* _self_asserted_b2c_1_tw_website_signin
SelfAsserted(c) ==
    /\ pc[c] = "self_asserted"
    /\ \E status \in Statuses :
          Completed(c, LogEntry(3, "self_asserted", status, SelfAssertedRaises(status)),
                    locals[c])
    /\ UNCHANGED <<authenticated, pkce_verifier, pkce_challenge, cookies,
                   oauth_request_tokens, oauth_response_tokens, urandom, calls,
                   queries, envVars>>

\* _confirmed_b2c_1_tw_website_signin lines 129-136: raise_for_status, then
\* the fragment of the final URL must hold a `code` key.
ConfirmedRaises(status, has_code) == RaiseForStatus(status) \/ ~has_code

\* _confirmed_b2c_1_tw_website_signin: the code the server hands out belongs
\* to the transaction named by the tx parameter.
Confirmed(c) ==
    /\ pc[c] = "confirmed"
    /\ \E status \in Statuses, has_code \in BOOLEAN :
          /\ status = "conn_error" => ~has_code
          /\ LET raised == ConfirmedRaises(status, has_code)
             IN  Completed(c, [LogEntry(4, "confirmed", status, raised) EXCEPT
                                 !.content = has_code],
                           IF raised THEN locals[c]
                           ELSE [locals[c] EXCEPT
                                   !.confirmation_code = locals[c].trans_token])
    /\ UNCHANGED <<authenticated, pkce_verifier, pkce_challenge, cookies,
                   oauth_request_tokens, oauth_response_tokens, urandom, calls,
                   queries, envVars>>

\* _get_oauth2_code_b2c_1_tw_website_signin lines 161-162
TokenRaises(status) == RaiseForStatus(status)

\* Mutant: the verifier of the instance's first login attempt is sent.
CodeVerifierOfFirstAttempt == IF pkce_verifier = None THEN None ELSE Some(1)

\* _get_oauth2_code_b2c_1_tw_website_signin line 157: 'code_verifier'
CodeVerifier == pkce_verifier

\* _get_oauth2_code_b2c_1_tw_website_signin: posts self.pkce_verifier and the
\* code; the tokens of the response are kept on the instance.
GetOauth2Code(c) ==
    /\ pc[c] = "token"
    /\ \E status \in Statuses :
          LET raised == TokenRaises(status)
          IN  /\ oauth_request_tokens' =
                    IF raised THEN oauth_request_tokens
                    ELSE Some([verifier |-> CodeVerifier[1], hop |-> "exchange"])
              /\ Completed(c, [LogEntry(5, "token", status, raised) EXCEPT
                                 !.verifier = CodeVerifier,
                                 !.code = locals[c].confirmation_code],
                           locals[c])
    /\ UNCHANGED <<authenticated, pkce_verifier, pkce_challenge, cookies,
                   oauth_response_tokens, urandom, calls, queries, envVars>>

\* _refresh_oauth2_token_b2c_1_tw_website_signin lines 185-186
RefreshRaises(status) == RaiseForStatus(status)

\* _refresh_oauth2_token_b2c_1_tw_website_signin: sends the refresh token of
\* self.oauth_request_tokens; the response is kept on the instance.
RefreshOauth2Token(c) ==
    /\ pc[c] = "refresh"
    /\ \E status \in Statuses :
          LET raised == RefreshRaises(status)
          IN  /\ oauth_response_tokens' =
                    IF raised THEN oauth_response_tokens
                    ELSE Some([verifier |-> oauth_request_tokens[1].verifier,
                               hop |-> "refresh"])
              /\ Completed(c, LogEntry(6, "refresh", status, raised), locals[c])
    /\ UNCHANGED <<authenticated, pkce_verifier, pkce_challenge, cookies,
                   oauth_request_tokens, urandom, calls, queries, envVars>>

\* _authenticate_sync line 213: self.s.get(.../mydashboard), status unchecked
DashboardRaises(status) == NoStatusCheck(status)

Dashboard(c) ==
    /\ pc[c] = "dashboard"
    /\ \E status \in Statuses :
          Completed(c, LogEntry(7, "dashboard", status, DashboardRaises(status)),
                    locals[c])
    /\ UNCHANGED <<authenticated, pkce_verifier, pkce_challenge, cookies,
                   oauth_request_tokens, oauth_response_tokens, urandom, calls,
                   queries, envVars>>

\* _authenticate_sync line 214: self.s.get(.../my-meters-usage?...), status
\* unchecked
MetersUsageRaises(status) == NoStatusCheck(status)

MetersUsage(c) ==
    /\ pc[c] = "meters_usage"
    /\ \E status \in Statuses :
          Completed(c, LogEntry(7, "meters_usage", status, MetersUsageRaises(status)),
                    locals[c])
    /\ UNCHANGED <<authenticated, pkce_verifier, pkce_challenge, cookies,
                   oauth_request_tokens, oauth_response_tokens, urandom, calls,
                   queries, envVars>>

\* _authenticate_sync lines 215-217: the status is unchecked; the final URL
\* must hold &state= and the page an id_token field (IndexError otherwise).
SignInRaises(status, parseable) == NoStatusCheck(status) \/ ~parseable

SignIn(c) ==
    /\ pc[c] = "signin"
    /\ \E status \in Statuses, parseable \in BOOLEAN :
          /\ status = "conn_error" => ~parseable
          /\ LET raised == SignInRaises(status, parseable)
             IN  Completed(c, [LogEntry(7, "signin", status, raised) EXCEPT
                                 !.content = parseable],
                           IF raised THEN locals[c]
                           ELSE [locals[c] EXCEPT !.state = Some("state"),
                                                  !.id_token = Some("id_token")])
    /\ UNCHANGED <<authenticated, pkce_verifier, pkce_challenge, cookies,
                   oauth_request_tokens, oauth_response_tokens, urandom, calls,
                   queries, envVars>>

\* _authenticate_sync line 218: self.s.get(r.url), status unchecked
FollowRaises(status) == NoStatusCheck(status)

Follow(c) ==
    /\ pc[c] = "follow"
    /\ \E status \in Statuses :
          Completed(c, LogEntry(7, "follow", status, FollowRaises(status)), locals[c])
    /\ UNCHANGED <<authenticated, pkce_verifier, pkce_challenge, cookies,
                   oauth_request_tokens, oauth_response_tokens, urandom, calls,
                   queries, envVars>>

\* _login lines 202-203
LoginRaises(status) == RaiseForStatus(status)

\* Mutant: the flag is not set at the end of the login sequence.
FlagAfterLoginUnset == FALSE

\* _authenticate_sync line 221: self._authenticated = True
FlagAfterLogin == TRUE

\* _authenticate_sync lines 219-221: _login, then the marker cookie and the
\* flag are set.
Login(c) ==
    /\ pc[c] = "login"
    /\ \E status \in Statuses :
          LET raised == LoginRaises(status)
          IN  /\ cookies' = IF raised THEN cookies
                            ELSE [cookies EXCEPT ![CookieB2c] = Some("true")]
              /\ authenticated' = IF raised THEN authenticated ELSE FlagAfterLogin
              /\ Completed(c, LogEntry(7, "login", status, raised), locals[c])
    /\ UNCHANGED <<pkce_verifier, pkce_challenge, oauth_request_tokens,
                   oauth_response_tokens, urandom, calls, queries, envVars>>

\* Mutant: any status is taken as a success.
QueryRaisesLax(status) == status = "conn_error"

\* _get_meter_usage_sync lines 251-252
QueryRaises(status) == RaiseForStatus(status)

\* Mutant: a failed query marks the session as logged out.
FlagAfterQueryResets(raised) == IF raised THEN FALSE ELSE authenticated

\* _get_meter_usage_sync lines 251-258 leave self._authenticated alone.
FlagAfterQuery(raised) == authenticated

\* The rows a response's JSON can hold under "Lines" (Usage and Read in
\* tenths of a litre).
ResponseRows ==
    { << [Label |-> <<"0", ":", "0", "0">>, Usage |-> 10, Read |-> 1019],
         [Label |-> <<"1", ":", "0", "0">>, Usage |-> 37, Read |-> 1056] >>,
      << [Label |-> <<"2", "3", ":", "0", "0">>, Usage |-> 25, Read |-> 2040],
         [Label |-> <<"0", ":", "0", "0">>, Usage |-> 10, Read |-> 2050] >> }
\* The response's JSON object: the key "Lines" is absent, or it holds null
\* or a list of rows.
NoLinesKey == [has_lines |-> FALSE, Lines |-> None]
NullLines == [has_lines |-> TRUE, Lines |-> None]
ResponseBodies ==
    {NoLinesKey}
        \cup {[has_lines |-> TRUE, Lines |-> l] :
                 l \in {None, Some(<<>>)} \cup {Some(rows) : rows \in ResponseRows}}

\* _get_meter_usage_sync line 255: data['Lines'] is a KeyError when the
\* object has no such key.
BodyRaises(body) == ~body.has_lines

\* _get_meter_usage_sync lines 255-257: null becomes the empty list, a list
\* becomes one Line per element.
LinesOfBody(body) == IF body.Lines = None THEN <<>> ELSE body.Lines[1]

\* _get_meter_usage_sync, and the return of get_meter_usage
GetMeterUsageSync(c) ==
    /\ pc[c] = "query"
    /\ \E status \in Statuses, body \in ResponseBodies :
          LET raised == QueryRaises(status) \/ BodyRaises(body)
              result == IF raised THEN <<>> ELSE LinesOfBody(body)
          IN  /\ (status # "ok" => body = NullLines)
              /\ queries' = Append(queries, [caller |-> c, authenticated |-> authenticated,
                                             status |-> status, call |-> calls,
                                             body |-> body, raised |-> raised,
                                             result |-> result,
                                             after |-> FlagAfterQuery(raised)])
              /\ call' = [call EXCEPT ![c].query_sent = TRUE,
                                      ![c].outcome = IF raised THEN "query_error"
                                                     ELSE "returned",
                                      ![c].result = result]
              /\ authenticated' = FlagAfterQuery(raised)
    /\ pc' = [pc EXCEPT ![c] = "idle"]
    /\ UNCHANGED <<pkce_verifier, pkce_challenge, cookies, oauth_request_tokens,
                   oauth_response_tokens, urandom, locals, calls, log, history,
                   envVars>>

\* ------------------------------------------- meter_usage_lines_to_timeseries
\* A label is the string the portal sends, "H:00" or "HH:00", as its
\* sequence of characters.
Digits == <<"0", "1", "2", "3", "4", "5", "6", "7", "8", "9">>
DigitValue(ch) == (CHOOSE i \in 1..Len(Digits) : Digits[i] = ch) - 1
LabelOf(h) ==
    (IF h >= 10 THEN <<Digits[(h \div 10) + 1]>> ELSE <<>>)
        \o <<Digits[(h % 10) + 1], ":", "0", "0">>

\* str.split(":")[0]: the characters before the first colon.
BeforeColon(label) ==
    LET first == CHOOSE i \in 1..Len(label) :
                    /\ label[i] = ":"
                    /\ \A j \in 1..(i - 1) : label[j] # ":"
    IN  SubSeq(label, 1, first - 1)

\* int() of a string of decimal digits.
RECURSIVE IntOfDigits(_)
IntOfDigits(chars) ==
    IF chars = <<>> THEN 0
    ELSE 10 * IntOfDigits(SubSeq(chars, 1, Len(chars) - 1))
            + DigitValue(chars[Len(chars)])

\* line 295: hour = int(line.Label.split(":")[0])
ParseHour(label) == IntOfDigits(BeforeColon(label))

\* Mutant: rounds down (math.floor) instead of toward zero.
PyIntFloors(tenths) == tenths \div 10

\* Usage and Read are floats; the model holds them in tenths.  int() of a
\* float discards the fractional part (rounds toward zero).
PyInt(tenths) == IF tenths >= 0 THEN tenths \div 10 ELSE -((-tenths) \div 10)

\* Mutant: the date is advanced on a fold as well.
ResolveHourAdvancesOnFold(date, prev, seen, hour) ==
    IF hour <= prev
    THEN IF <<date, hour>> \in seen /\ hour # 0
         THEN [date |-> date + 1, fold |-> 1]
         ELSE [date |-> date + 1, fold |-> 0]
    ELSE [date |-> date, fold |-> 0]

\* Mutant: the date is not advanced when the hour goes backwards to a pair
\* not seen before (line 312 missing).
ResolveHourKeepsDate(date, prev, seen, hour) ==
    IF hour <= prev
    THEN IF <<date, hour>> \in seen
         THEN IF hour = 0
              THEN [date |-> date + 1, fold |-> 0]
              ELSE [date |-> date, fold |-> 1]
         ELSE [date |-> date, fold |-> 0]
    ELSE [date |-> date, fold |-> 0]

\* Mutant: a pair seen before is taken as a rollover, never as a fold.
ResolveHourNeverFolds(date, prev, seen, hour) ==
    IF hour <= prev
    THEN [date |-> date + 1, fold |-> 0]
    ELSE [date |-> date, fold |-> 0]

\* Mutant: `hour < prev_hour` in place of `hour <= prev_hour`.
ResolveHourStrictCompare(date, prev, seen, hour) ==
    IF hour < prev
    THEN IF <<date, hour>> \in seen
         THEN IF hour = 0
              THEN [date |-> date + 1, fold |-> 0]
              ELSE [date |-> date, fold |-> 1]
         ELSE [date |-> date + 1, fold |-> 0]
    ELSE [date |-> date, fold |-> 0]

\* Mutant: hour 0 gets no case of its own, a seen pair is always a fold.
ResolveHourNoMidnightCase(date, prev, seen, hour) ==
    IF hour <= prev
    THEN IF <<date, hour>> \in seen
         THEN [date |-> date, fold |-> 1]
         ELSE [date |-> date + 1, fold |-> 0]
    ELSE [date |-> date, fold |-> 0]

\* Mutant: the comparison with prev_hour is off by one.
ResolveHourOffByOne(date, prev, seen, hour) ==
    IF hour <= prev + 1
    THEN IF <<date, hour>> \in seen
         THEN IF hour = 0
              THEN [date |-> date + 1, fold |-> 0]
              ELSE [date |-> date, fold |-> 1]
         ELSE [date |-> date + 1, fold |-> 0]
    ELSE [date |-> date, fold |-> 0]

\* lines 298-316: the date and the fold of a row with hour `hour`, given the
\* loop's current_date, prev_hour and seen_hours.
ResolveHour(date, prev, seen, hour) ==
    IF hour <= prev
    THEN IF <<date, hour>> \in seen
         THEN IF hour = 0
              THEN [date |-> date + 1, fold |-> 0]
              ELSE [date |-> date, fold |-> 1]
         ELSE [date |-> date + 1, fold |-> 0]
    ELSE [date |-> date, fold |-> 0]

\* Mutant: the default zone is attached, whatever tz is.
AwareDatetimeDefaultZone(date, hour, fold, zone) ==
    [date |-> date, hour |-> hour, minute |-> 0, fold |-> fold,
     tzinfo |-> Some("Europe/London")]

\* lines 321-325: datetime(year, month, day, hour, fold=fold) with tzinfo
\* attached by replace(); the civil fields are kept as they are.
AwareDatetime(date, hour, fold, zone) ==
    [date |-> date, hour |-> hour, minute |-> 0, fold |-> fold, tzinfo |-> Some(zone)]

\* lines 327-331
Measurement(hour_start, line) ==
    [hour_start |-> hour_start, usage |-> PyInt(line.Usage), total |-> PyInt(line.Read)]

\* Mutant: a measurement whose date and hour were already emitted is dropped.
EmitDeduplicated(rs, m) ==
    IF \E i \in 1..Len(rs) : /\ rs[i].hour_start.date = m.hour_start.date
                              /\ rs[i].hour_start.hour = m.hour_start.hour
    THEN rs
    ELSE Append(rs, m)

\* line 327: results.append(...)
Emit(rs, m) == Append(rs, m)

\* The function is not running.
NormIdle ==
    /\ lines = <<>>
    /\ start = [date |-> 0, tzinfo |-> None]
    /\ tz = "Europe/London"
    /\ npc = "idle"
    /\ idx = 1
    /\ current_date = 0
    /\ prev_hour = -1
    /\ seen_hours = {}
    /\ results = <<>>

\* Inputs.  Hours a label can name, and the ones the inputs are built from.
Hours == 0..23
HourSamples == {0, 1, 2, 12, 22, 23}
\* Usage per row, in tenths of a litre.
UsageSamples == {-15, 10, 37}
StartDates == {0, 3}
Zones == {"Europe/London", "America/New_York"}

RECURSIVE SeqsUpTo(_, _)
SeqsUpTo(S, n) ==
    IF n = 0 THEN {<<>>}
    ELSE LET shorter == SeqsUpTo(S, n - 1)
         IN  shorter \cup {Append(q, x) : q \in {r \in shorter : Len(r) = n - 1}, x \in S}

LinesOf(hours, usage) ==
    [i \in 1..Len(hours) |->
        [Label |-> LabelOf(hours[i]), Usage |-> usage, Read |-> 1009 + i * usage]]

\* Whole days of labels 0:00..23:00 followed by the first hours of a
\* further day.
PrefixSamples == {0, 1, 2, 23}
DayHours(n) == [i \in 1..n |-> (i - 1) % 24]
DayInputs == {DayHours(24 * k + p) : k \in 1..MaxDays, p \in PrefixSamples}

InputLines ==
    {LinesOf(h, u) : h \in SeqsUpTo(HourSamples, MaxLines) \cup DayInputs,
                     u \in UsageSamples}

\* The inputs tried with a tz other than the default.
ZonedInputLines == {LinesOf(h, 10) : h \in SeqsUpTo(HourSamples, MaxLines)}
ZonedInputStart == [date |-> 0, tzinfo |-> None]

InputStarts ==
    [date : StartDates, tzinfo : {None}] \cup [date : {0}, tzinfo : {Some("Europe/London")}]

\* The call: the arguments are bound.
NormInit ==
    /\ lines \in InputLines
    /\ start \in InputStarts
    /\ tz \in Zones
    /\ tz # "Europe/London" => (lines \in ZonedInputLines /\ start = ZonedInputStart)
    /\ npc = "check"
    /\ idx = 1
    /\ current_date = 0
    /\ prev_hour = -1
    /\ seen_hours = {}
    /\ results = <<>>

\* Mutant: the start is looked at only when there are rows to date.
StartRefusedWithRows == start.tzinfo # None /\ lines # <<>>

\* lines 285-286: a start that carries tzinfo is refused.
StartRefused == start.tzinfo # None

\* lines 285-292
NormCheckStart ==
    /\ npc = "check"
    /\ IF StartRefused
       THEN /\ npc' = "raised"
            /\ UNCHANGED <<current_date, prev_hour, seen_hours, results>>
       ELSE /\ npc' = "loop"
            /\ current_date' = start.date
            /\ prev_hour' = -1
            /\ seen_hours' = {}
            /\ results' = <<>>
    /\ UNCHANGED <<lines, start, tz, idx, authVars, statVars, fillVars, hassVars>>

\* lines 294-331: one iteration of the for loop
NormStep ==
    /\ npc = "loop"
    /\ idx <= Len(lines)
    /\ LET line == lines[idx]
           hour == ParseHour(line.Label)
           r == ResolveHour(current_date, prev_hour, seen_hours, hour)
       IN  /\ current_date' = r.date
           /\ seen_hours' = seen_hours \cup {<<r.date, hour>>}
           /\ prev_hour' = hour
           /\ results' = Emit(results,
                              Measurement(AwareDatetime(r.date, hour, r.fold, tz), line))
    /\ idx' = idx + 1
    /\ UNCHANGED <<lines, start, tz, npc, authVars, statVars, fillVars, hassVars>>

\* line 333
NormReturn ==
    /\ npc = "loop"
    /\ idx > Len(lines)
    /\ npc' = "returned"
    /\ UNCHANGED <<lines, start, tz, idx, current_date, prev_hour, seen_hours, results,
                   authVars, statVars, fillVars, hassVars>>

\* --------------------------------- _generate_statistics_from_meter_usage
\* homeassistant's StatisticData; sum is held in tenths, as the baseline is.
StatisticData(st, state, sum) == [start |-> st, state |-> state, sum |-> sum]

\* Mutant: the baseline is not subtracted.
StatisticsIgnoringBaseline(measurements, baseline) ==
    [i \in 1..Len(measurements) |->
        StatisticData(measurements[i].hour_start, measurements[i].usage,
                      10 * measurements[i].total)]

\* sensor.py lines 82-90: one StatisticData per measurement.
StatisticsOf(measurements, baseline) ==
    [i \in 1..Len(measurements) |->
        StatisticData(measurements[i].hour_start, measurements[i].usage,
                      10 * measurements[i].total - baseline)]

\* Baselines (the initial reading), in tenths of a litre: 0, 100.0, 100.5.
Baselines == {0, 1000, 1005}

StatIdle ==
    /\ initial_reading = None
    /\ stats = <<>>

\* sensor.py lines 78-90, once the time series of line 89 is there.
GenerateStatisticsFromMeterUsage ==
    /\ npc = "returned"
    /\ npc' = "stats"
    /\ \E b \in Baselines :
          /\ initial_reading' = Some(b)
          /\ stats' = StatisticsOf(results, b)
    /\ UNCHANGED <<lines, start, tz, idx, current_date, prev_hour, seen_hours, results,
                   authVars, fillVars, hassVars>>

\* ------------------------------------------- handle_fill_historical_data
\* meter_usage_lines_to_timeseries as the function the handler calls: the
\* for loop of lines 294-331 from row i on.
RECURSIVE TimeseriesFrom(_, _, _, _, _, _, _)
TimeseriesFrom(ls, i, date, prev, seen, rs, zone) ==
    IF i > Len(ls)
    THEN rs
    ELSE LET hour == ParseHour(ls[i].Label)
             r == ResolveHour(date, prev, seen, hour)
         IN  TimeseriesFrom(ls, i + 1, r.date, hour, seen \cup {<<r.date, hour>>},
                            Emit(rs, Measurement(AwareDatetime(r.date, hour, r.fold, zone),
                                                 ls[i])),
                            zone)

\* thameswater.py lines 289-333, for a naive start.
MeterUsageLinesToTimeseries(st, ls) ==
    TimeseriesFrom(ls, 1, st.date, -1, {}, <<>>, "Europe/London")

\* __init__.py line 82: timedelta(days=7)
ChunkDays == 7

\* The ranges asked for: end_date before, at and after start_date, with one,
\* two and three chunks.
RangeStarts == {0, 2}
RangeEnds == {0, 2, 5, 12, 21}
\* A baseline configured before the run, or none.
ConfiguredBaselines == {None, Some(1000)}
\* Cost per cubic metre set on the number entity.
CostSamples == {2, 3}

\* Mutant: a chunk is always seven days long, whatever end_dt is.
MinIgnoringEnd(a, b) == a

Min(a, b) == IF a <= b THEN a ELSE b

\* No backfill is running.
FillIdle ==
    /\ fpc = "idle"
    /\ start_date = 0
    /\ end_date = 0
    /\ chunk_start = 0
    /\ chunk_end = 0
    /\ end_dt = 0
    /\ all_stats = <<>>
    /\ initial_reading_set = FALSE
    /\ hass_initial_reading = None
    /\ cost_per_cubic_metre = 2
    /\ injected = [consumption |-> None, cost |-> None]
    /\ fetches = <<>>

\* The service is called.
FillInit ==
    /\ fpc = "called"
    /\ start_date \in RangeStarts
    /\ end_date \in RangeEnds
    /\ chunk_start = 0
    /\ chunk_end = 0
    /\ end_dt = 0
    /\ all_stats = <<>>
    /\ initial_reading_set = FALSE
    /\ hass_initial_reading \in ConfiguredBaselines
    /\ cost_per_cubic_metre \in CostSamples
    /\ injected = [consumption |-> None, cost |-> None]
    /\ fetches = <<>>

\* the caller the handler is, of its own ThamesWater instance
FillCaller == "c1"

\* lines 52-79: the arguments, a new ThamesWater, the loop's variables
HandleFillHistoricalData ==
    /\ fpc = "called"
    /\ fpc' = "loop"
    /\ all_stats' = <<>>
    /\ chunk_start' = start_date
    /\ end_dt' = end_date
    /\ initial_reading_set' = FALSE
    /\ UNCHANGED <<start_date, end_date, chunk_end, hass_initial_reading,
                   cost_per_cubic_metre, injected, fetches>>
    /\ UNCHANGED <<authVars, normVars, statVars, hassVars>>

\* lines 81-92: the loop test, chunk_end, and the call of get_meter_usage
FetchChunk ==
    /\ fpc = "loop"
    /\ chunk_start < end_dt
    /\ chunk_end' = Min(chunk_start + ChunkDays, end_dt)
    /\ StartCall(FillCaller)
    /\ fetches' = Append(fetches, [start |-> chunk_start, end |-> chunk_end',
                                   outcome |-> "pending", lines |-> <<>>,
                                   baseline |-> None, wrote |-> None])
    /\ fpc' = "awaiting"
    /\ UNCHANGED <<start_date, end_date, chunk_start, end_dt, all_stats,
                   initial_reading_set, hass_initial_reading, cost_per_cubic_metre,
                   injected>>
    /\ UNCHANGED <<normVars, statVars, hassVars>>

\* Mutant: after an exception the same chunk is asked for again.
ChunkStartAfterErrorRetries(ce, ed) == chunk_start

\* Mutant: an exception of the fetch ends the loop.
ChunkStartAfterErrorStops(ce, ed) == ed

\* lines 93-98: `except Exception`: chunk_start = chunk_end; continue
ChunkStartAfterError(ce, ed) == ce

\* Mutant: a baseline configured before the run is kept.
SetsInitialReadingIfUnset(set, configured) == ~set /\ configured = None

\* line 105: `if not initial_reading_set`
SetsInitialReading(set, configured) == ~set

\* lines 106-107: the baseline taken from the first row
BaselineOf(first_line) == first_line.Read - first_line.Usage

\* lines 89-130: get_meter_usage has returned or raised; the rest of the
\* loop body
ChunkFetched ==
    /\ fpc = "awaiting"
    /\ pc[FillCaller] = "idle"
    /\ LET c == call[FillCaller]
           n == Len(fetches)
           raised == c.outcome \in {"login_error", "query_error"}
           rows == c.result
           writes == SetsInitialReading(initial_reading_set, hass_initial_reading)
           baseline == IF writes THEN Some(BaselineOf(rows[1]))
                       ELSE hass_initial_reading
       IN  IF raised
           THEN /\ chunk_start' = ChunkStartAfterError(chunk_end, end_dt)
                /\ fetches' = [fetches EXCEPT ![n].outcome = c.outcome]
                /\ UNCHANGED <<all_stats, initial_reading_set, hass_initial_reading>>
           ELSE IF rows = <<>>
           THEN /\ chunk_start' = chunk_end
                /\ fetches' = [fetches EXCEPT ![n].outcome = "empty"]
                /\ UNCHANGED <<all_stats, initial_reading_set, hass_initial_reading>>
           ELSE /\ hass_initial_reading' = baseline
                /\ initial_reading_set' = TRUE
                /\ all_stats' = all_stats \o
                       StatisticsOf(MeterUsageLinesToTimeseries(
                                        [date |-> chunk_start, tzinfo |-> None], rows),
                                    baseline[1])
                /\ chunk_start' = chunk_end
                /\ fetches' = [fetches EXCEPT ![n].outcome = "rows",
                                              ![n].lines = rows,
                                              ![n].baseline = baseline,
                                              ![n].wrote = IF writes THEN baseline
                                                           ELSE None]
    /\ fpc' = "loop"
    /\ UNCHANGED <<start_date, end_date, chunk_end, end_dt, cost_per_cubic_metre,
                   injected>>
    /\ UNCHANGED <<authVars, normVars, statVars, hassVars>>

\* Mutant: only the hourly cost is scaled, the running sum is copied.
CostStatisticsOfStateOnly(stats_, cost) ==
    [i \in 1..Len(stats_) |->
        StatisticData(stats_[i].start, stats_[i].state * cost, stats_[i].sum)]

\* The value a user gives the initial-reading number entity, in tenths.
WrittenBaselines == {500}

\* number.py lines 107-110, ThamesWaterInitialReading.async_set_native_value,
\* called by the number platform while the handler, or the sensor's update,
\* is suspended in its await of get_meter_usage.
AsyncSetNativeValue ==
    /\ fpc = "awaiting" \/ upc = "awaiting"
    /\ \E v \in WrittenBaselines :
          /\ hass_initial_reading # Some(v)
          /\ hass_initial_reading' = Some(v)
    /\ UNCHANGED <<fpc, start_date, end_date, chunk_start, chunk_end, end_dt, all_stats,
                   initial_reading_set, cost_per_cubic_metre, injected, fetches>>
    /\ UNCHANGED <<authVars, normVars, statVars, hassVars>>

\* __init__.py lines 160-167 and sensor.py lines 205-208: the cost series,
\* in thousandths of the cost unit
CostStatistics(stats_, cost) ==
    [i \in 1..Len(stats_) |->
        StatisticData(stats_[i].start, stats_[i].state * cost, stats_[i].sum * cost)]

\* lines 81, 132-178: the loop is left; the statistics are injected
FinishFill ==
    /\ fpc = "loop"
    /\ ~(chunk_start < end_dt)
    /\ IF all_stats = <<>>
       THEN /\ fpc' = "returned"
            /\ UNCHANGED injected
       ELSE /\ fpc' = "done"
            /\ injected' = [consumption |-> Some(all_stats),
                            cost |-> Some(CostStatistics(all_stats,
                                                         cost_per_cubic_metre))]
    /\ UNCHANGED <<start_date, end_date, chunk_start, chunk_end, end_dt, all_stats,
                   initial_reading_set, hass_initial_reading, cost_per_cubic_metre,
                   fetches>>
    /\ UNCHANGED <<authVars, normVars, statVars, hassVars>>

\* ------------------------------------------- ThamesWaterSensor.async_update
\* The updates of one sensor that are followed.
MaxUpdates == 2

\* the caller the sensor is, of the ThamesWater instance of its update
SensorCaller == "c1"

\* sensor.py line 112: self._state = None; no update is running.
SensorIdle ==
    /\ upc = "idle"
    /\ sensor_state = None
    /\ updates = <<>>

\* The sensor is added; hass.data holds what the number entities restored.
SensorInit ==
    /\ SensorIdle
    /\ fpc = "idle"
    /\ start_date = 0
    /\ end_date = 0
    /\ chunk_start = 0
    /\ chunk_end = 0
    /\ end_dt = 0
    /\ all_stats = <<>>
    /\ initial_reading_set = FALSE
    /\ hass_initial_reading \in ConfiguredBaselines
    /\ cost_per_cubic_metre \in CostSamples
    /\ injected = [consumption |-> None, cost |-> None]
    /\ fetches = <<>>

\* sensor.py lines 159-167: the window, and a new ThamesWater
\* (thameswater.py lines 51-62) for this update.
AsyncUpdate ==
    /\ upc = "idle"
    /\ Len(updates) < MaxUpdates
    /\ upc' = "constructed"
    /\ authenticated' = FALSE
    /\ pkce_verifier' = None
    /\ pkce_challenge' = None
    /\ cookies' = [n \in CookieNames |-> None]
    /\ oauth_request_tokens' = None
    /\ oauth_response_tokens' = None
    /\ pc' = [c \in Callers |-> "idle"]
    /\ locals' = [c \in Callers |-> NoLocals]
    /\ calls' = 0
    /\ call' = [c \in Callers |-> NoCall]
    /\ log' = [c \in Callers |-> <<>>]
    /\ history' = NoHistory
    /\ queries' = <<>>
    /\ updates' = Append(updates, [outcome |-> "pending", rows |-> <<>>,
                                   baseline |-> None,
                                   state_before |-> sensor_state,
                                   state_after |-> sensor_state,
                                   consumption |-> None, cost |-> None])
    /\ UNCHANGED <<urandom, sensor_state>>
    /\ UNCHANGED <<normVars, statVars, fillVars, lifeVars>>

\* sensor.py line 168: get_meter_usage is called and awaited
SensorFetch ==
    /\ upc = "constructed"
    /\ StartCall(SensorCaller)
    /\ upc' = "awaiting"
    /\ UNCHANGED <<sensor_state, updates>>
    /\ UNCHANGED <<normVars, statVars, fillVars, lifeVars>>

\* Mutant: the state is set to the last reading before the baseline is
\* looked at.
SensorStateWhenSkippedSetEarly(state, rows) ==
    IF rows = <<>> THEN state ELSE Some(Last(rows).Read)

\* sensor.py lines 171-177: both early returns come before line 181, the
\* only assignment of self._state.
SensorStateWhenSkipped(state, rows) == state

\* sensor.py lines 168-208: get_meter_usage has returned or raised; the
\* rest of async_update.  An exception of the fetch leaves async_update.
SensorFetched ==
    /\ upc = "awaiting"
    /\ pc[SensorCaller] = "idle"
    /\ LET c == call[SensorCaller]
           n == Len(updates)
           raised == c.outcome \in {"login_error", "query_error"}
           rows == c.result
           baseline == hass_initial_reading
       IN  IF raised
           THEN /\ updates' = [updates EXCEPT ![n].outcome = "raised",
                                              ![n].baseline = baseline]
                /\ UNCHANGED <<sensor_state, injected>>
           ELSE IF Len(rows) = 0
           THEN /\ sensor_state' = SensorStateWhenSkipped(sensor_state, rows)
                /\ updates' = [updates EXCEPT ![n].outcome = "empty",
                                              ![n].baseline = baseline,
                                              ![n].state_after = sensor_state']
                /\ UNCHANGED injected
           ELSE IF baseline = None
           THEN /\ sensor_state' = SensorStateWhenSkipped(sensor_state, rows)
                /\ updates' = [updates EXCEPT ![n].outcome = "no_baseline",
                                              ![n].rows = rows,
                                              ![n].state_after = sensor_state']
                /\ UNCHANGED injected
           ELSE LET stats_ == StatisticsOf(
                                 MeterUsageLinesToTimeseries(
                                     [date |-> 0, tzinfo |-> None], rows),
                                 baseline[1])
                    cost == CostStatistics(stats_, cost_per_cubic_metre)
                IN  /\ sensor_state' = Some(Last(rows).Read - baseline[1])
                    /\ injected' = [consumption |-> Some(stats_), cost |-> Some(cost)]
                    /\ updates' = [updates EXCEPT ![n].outcome = "injected",
                                                  ![n].rows = rows,
                                                  ![n].baseline = baseline,
                                                  ![n].state_after = sensor_state',
                                                  ![n].consumption = Some(stats_),
                                                  ![n].cost = Some(cost)]
    /\ upc' = "idle"
    /\ UNCHANGED <<fpc, start_date, end_date, chunk_start, chunk_end, end_dt, all_stats,
                   initial_reading_set, hass_initial_reading, cost_per_cubic_metre,
                   fetches>>
    /\ UNCHANGED <<authVars, normVars, statVars, lifeVars>>

\* --------------------------------- async_setup_entry / async_unload_entry
\* The config entries of the integration, each with its own entry_id.
Entries == {"e1", "e2", "e3"}
\* The async_setup_entry calls that are followed.
MaxSetups == 4

\* entry.data: what config_flow.py (lines 23-32) requires of the user.
EntryData == [kind |-> "mapping",
              keys |-> {"username", "password", "account_number", "meter_id"}]
\* What the number entities put into hass.data[DOMAIN] besides.
FloatValue == [kind |-> "float", keys |-> {}]
EntityValue == [kind |-> "entity", keys |-> {}]

\* d[k] = v, as a dict: the key is added or its value replaced.
DictSet(d, k, v) == [x \in (DOMAIN d) \cup {k} |-> IF x = k THEN v ELSE d[x]]
\* d.pop(k)
DictPop(d, k) == [x \in (DOMAIN d) \ {k} |-> d[x]]

\* Nothing is set up: hass.data[DOMAIN] is the empty dict of setdefault.
LifeIdle ==
    /\ entry_state = [e \in Entries |-> "not_loaded"]
    /\ domain_data = <<>>
    /\ has_service = FALSE
    /\ service_calls = [setups |-> 0, registers |-> 0, removes |-> 0]

\* __init__.py lines 41-45: the entry's data is stored and the platforms
\* are handed the entry; async_setup_entry is suspended in the await.
AsyncSetupEntry(e) ==
    /\ entry_state[e] = "not_loaded"
    /\ service_calls.setups < MaxSetups
    /\ domain_data' = DictSet(domain_data, e, EntryData)
    /\ entry_state' = [entry_state EXCEPT ![e] = "forwarding"]
    /\ service_calls' = [service_calls EXCEPT !.setups = @ + 1]
    /\ UNCHANGED has_service
    /\ UNCHANGED <<authVars, normVars, statVars, fillVars, sensorVars>>

\* number.py lines 56-62 and 97-105: what the two number entities write
\* when they are added; the initial reading only if one was restored.
NumberEntitiesAdded(d, restored) ==
    LET with_cost == DictSet(d, "cost_per_cubic_metre", FloatValue)
        with_reading == IF restored
                        THEN DictSet(with_cost, "initial_reading", FloatValue)
                        ELSE with_cost
    IN  DictSet(with_reading, "initial_reading_entity", EntityValue)

\* __init__.py lines 45-188: the platforms are set up; the service is
\* registered unless has_service finds it.
SetupEntryForwarded(e) ==
    /\ entry_state[e] = "forwarding"
    /\ \E restored \in BOOLEAN :
          domain_data' = NumberEntitiesAdded(domain_data, restored)
    /\ IF ~has_service
       THEN /\ has_service' = TRUE
            /\ service_calls' = [service_calls EXCEPT !.registers = @ + 1]
       ELSE UNCHANGED <<has_service, service_calls>>
    /\ entry_state' = [entry_state EXCEPT ![e] = "loaded"]
    /\ UNCHANGED <<authVars, normVars, statVars, fillVars, sensorVars>>

\* __init__.py lines 193-194: the platforms are asked to unload
AsyncUnloadEntry(e) ==
    /\ entry_state[e] = "loaded"
    /\ entry_state' = [entry_state EXCEPT ![e] = "unloading"]
    /\ UNCHANGED <<domain_data, has_service, service_calls>>
    /\ UNCHANGED <<authVars, normVars, statVars, fillVars, sensorVars>>

\* Mutant: every value left in hass.data[DOMAIN] counts as an entry.
IsEntryDataAnyValue(v) == TRUE

\* __init__.py line 201: isinstance(v, Mapping) and "username" in v
IsEntryData(v) == v.kind = "mapping" /\ "username" \in v.keys

\* __init__.py lines 195-206: the entry's data is popped, and the service
\* removed if no entry's data remains.
UnloadEntryForwarded(e) ==
    /\ entry_state[e] = "unloading"
    /\ domain_data' = DictPop(domain_data, e)
    /\ LET remaining == {k \in DOMAIN domain_data' : IsEntryData(domain_data'[k])}
       IN  IF remaining = {}
           THEN /\ has_service' = FALSE
                /\ service_calls' = [service_calls EXCEPT !.removes = @ + 1]
           ELSE UNCHANGED <<has_service, service_calls>>
    /\ entry_state' = [entry_state EXCEPT ![e] = "not_loaded"]
    /\ UNCHANGED <<authVars, normVars, statVars, fillVars, sensorVars>>

\* ----------------------------------------------------------- specification
Init == AuthInit /\ NormIdle /\ StatIdle /\ FillIdle /\ SensorIdle /\ LifeIdle

Next ==
    \E c \in SeqCallers :
        \/ SequentialStartCall(c)
        \/ GeneratePkce(c)
        \/ Authorize(c)
        \/ SelfAsserted(c)
        \/ Confirmed(c)
        \/ GetOauth2Code(c)
        \/ RefreshOauth2Token(c)
        \/ Dashboard(c)
        \/ MetersUsage(c)
        \/ SignIn(c)
        \/ Follow(c)
        \/ Login(c)
        \/ GetMeterUsageSync(c)

Spec == Init /\ [][Next]_vars

\* meter_usage_lines_to_timeseries applied to every input of InputLines.
InitNorm == AuthInit /\ NormInit /\ StatIdle /\ FillIdle /\ SensorIdle /\ LifeIdle

NextNorm ==
    \/ NormCheckStart
    \/ NormStep
    \/ NormReturn
    \/ GenerateStatisticsFromMeterUsage

SpecNorm == InitNorm /\ [][NextNorm]_vars

\* Two overlapping get_meter_usage calls on one ThamesWater.
NextConc ==
    \E c \in Callers :
        \/ ConcurrentStartCall(c)
        \/ GeneratePkce(c)
        \/ Authorize(c)
        \/ SelfAsserted(c)
        \/ Confirmed(c)
        \/ GetOauth2Code(c)
        \/ RefreshOauth2Token(c)
        \/ Dashboard(c)
        \/ MetersUsage(c)
        \/ SignIn(c)
        \/ Follow(c)
        \/ Login(c)
        \/ GetMeterUsageSync(c)

SpecConc == Init /\ [][NextConc]_vars

\* One run of the fill_historical_data service on a new ThamesWater.
InitFill == AuthInit /\ NormIdle /\ StatIdle /\ FillInit /\ SensorIdle /\ LifeIdle

HandlerStep ==
    \/ HandleFillHistoricalData
    \/ FetchChunk
    \/ GeneratePkce(FillCaller)
    \/ Authorize(FillCaller)
    \/ SelfAsserted(FillCaller)
    \/ Confirmed(FillCaller)
    \/ GetOauth2Code(FillCaller)
    \/ RefreshOauth2Token(FillCaller)
    \/ Dashboard(FillCaller)
    \/ MetersUsage(FillCaller)
    \/ SignIn(FillCaller)
    \/ Follow(FillCaller)
    \/ Login(FillCaller)
    \/ GetMeterUsageSync(FillCaller)
    \/ ChunkFetched
    \/ FinishFill

NextFill ==
    \/ HandlerStep
    \/ AsyncSetNativeValue

SpecFill == InitFill /\ [][NextFill]_vars

\* Runs over ranges of at most two chunks, when every request is answered or
\* fails and the event loop resumes the handler.
InitFillLive ==
    /\ InitFill
    /\ end_date - start_date <= 2 * ChunkDays
    /\ hass_initial_reading = None
    /\ cost_per_cubic_metre = 2

SpecFillLive == InitFillLive /\ [][NextFill]_vars /\ WF_vars(HandlerStep)

\* The scheduled updates of one sensor, each on a new ThamesWater, while
\* the initial-reading number entity may be written.
InitSensor == AuthInit /\ NormIdle /\ StatIdle /\ SensorInit /\ LifeIdle

NextSensor ==
    \/ AsyncUpdate
    \/ SensorFetch
    \/ GeneratePkce(SensorCaller)
    \/ Authorize(SensorCaller)
    \/ SelfAsserted(SensorCaller)
    \/ Confirmed(SensorCaller)
    \/ GetOauth2Code(SensorCaller)
    \/ RefreshOauth2Token(SensorCaller)
    \/ Dashboard(SensorCaller)
    \/ MetersUsage(SensorCaller)
    \/ SignIn(SensorCaller)
    \/ Follow(SensorCaller)
    \/ Login(SensorCaller)
    \/ GetMeterUsageSync(SensorCaller)
    \/ SensorFetched
    \/ AsyncSetNativeValue

SpecSensor == InitSensor /\ [][NextSensor]_vars

\* Config entries set up and unloaded, a call of one entry running while
\* another is suspended in its await.
NextLife ==
    \E e \in Entries :
        \/ AsyncSetupEntry(e)
        \/ SetupEntryForwarded(e)
        \/ AsyncUnloadEntry(e)
        \/ UnloadEntryForwarded(e)

SpecLife == Init /\ [][NextLife]_vars

\* ------------------------------------------------------------------ claims
\* The stage each request of a login attempt belongs to, by its position.
StageAt(i) == IF i <= 6 THEN i ELSE 7
RequestsOfLogin == 11

C2_AuthenticatedOnlyIfAllSucceeded ==
    authenticated =>
        \E c \in Callers :
            /\ Len(log[c]) = RequestsOfLogin
            /\ \A i \in 1..Len(log[c]) : log[c][i].status = "ok"

\* C3: within a login attempt the stages run in the order 1..7: the first
\* request is stage 1, each request belongs to the stage of the request
\* before it or to the next stage, a request is made only after the one
\* before it succeeded, and no request is made twice.
C3_StagesInStrictOrder ==
    \A c \in Callers :
        /\ Len(log[c]) <= RequestsOfLogin
        /\ \A i \in 1..Len(log[c]) :
              /\ log[c][i].stage = StageAt(i)
              /\ i > 1 => ~log[c][i - 1].raised
              /\ \A j \in 1..Len(log[c]) : j # i => log[c][j].req # log[c][i].req

\* C3's case: an attempt that ran all seven stages.
C3_Witness ==
    /\ Len(log["c1"]) = RequestsOfLogin
    /\ Last(log["c1"]).stage = 7
    /\ ~Last(log["c1"]).raised
    /\ authenticated

\* C4: every consumption query is sent with _authenticated true; a call
\* that found the instance unauthenticated ran the whole login sequence
\* before its query, and a call whose login failed ended with that error
\* and sent no query.
C4_NoQueryWhileUnauthenticated ==
    /\ \A i \in 1..Len(queries) : queries[i].authenticated
    /\ \A c \in Callers :
          /\ call[c].outcome = "login_error" => ~call[c].query_sent
          /\ (call[c].query_sent /\ call[c].logins_before = 0)
                => call[c].login_requests = RequestsOfLogin

\* C4's case: a login failed in one call, a later call logged in and sent
\* its query.
C4_Witness ==
    /\ history.failed >= 1
    /\ call["c1"].login_requests = RequestsOfLogin
    /\ call["c1"].query_sent
    /\ Len(queries) = 1

\* C5: at most one login succeeds on an instance, and a call made after a
\* successful login runs no login request and sends only the query.
C5_NoReauthentication ==
    /\ history.succeeded <= 1
    /\ \A c \in Callers :
          call[c].logins_before >= 1
              => /\ call[c].login_requests = 0
                 /\ pc[c] \in {"query", "idle"}
                 /\ pc[c] = "idle" => call[c].query_sent

\* C5's case: a second call after a successful login has sent its query.
C5_Witness ==
    /\ call["c1"].logins_before = 1
    /\ call["c1"].query_sent
    /\ call["c1"].login_requests = 0
    /\ Len(queries) >= 2

\* C6: a login attempt made after an attempt that failed starts at
\* GeneratePKCE with a verifier never generated before on the instance and
\* runs the stages from 1 in order, whatever stage the earlier one failed at.
C6_RestartsFromStageOne ==
    \A c \in Callers :
        (call[c].failed_before >= 1 /\ call[c].login_requests >= 1)
            => /\ Len(log[c]) = call[c].login_requests
               /\ log[c][1].req = "pkce"
               /\ log[c][1].fresh
               /\ \A i \in 1..Len(log[c]) : log[c][i].stage = StageAt(i)
               /\ pkce_verifier = log[c][1].verifier
               /\ pkce_challenge = Some(PkceChallengeOf(log[c][1].verifier[1]))

\* C6's case: after an attempt that failed at stage 3 or later, the next
\* call's attempt has run to the end.
C6_Witness ==
    /\ call["c1"].failed_before >= 1
    /\ history.last_failed_stage >= 3
    /\ Len(log["c1"]) = RequestsOfLogin
    /\ authenticated

\* C7: after a login attempt has failed, none of the values its stages
\* produced remain on the instance: no PKCE verifier or challenge, no
\* correlation cookie in the jar, no oauth_request_tokens and no
\* oauth_response_tokens.
C7_NoStateAfterFailure ==
    \A c \in Callers :
        (pc[c] = "idle" /\ call[c].outcome = "login_error")
            => /\ pkce_verifier = None
               /\ pkce_challenge = None
               /\ \A n \in CorrelationCookies : cookies[n] = None
               /\ oauth_request_tokens = None
               /\ oauth_response_tokens = None

\* C8: an Authorize request whose response did not deliver both correlation
\* cookies fails its stage, and stage 3 is not attempted, on a first and on
\* any later attempt.
C8_AuthorizeNeedsCookiesOfItsResponse ==
    \A c \in Callers :
        \A i \in 1..Len(log[c]) :
            (log[c][i].req = "authorize" /\ log[c][i].delivered # CorrelationCookies)
                => /\ log[c][i].raised
                   /\ i = Len(log[c])

\* Wall-clock order of two timestamps of one zone: by date, then hour, then
\* fold (the second occurrence of a repeated hour is the later one).
WallClockBefore(a, b) ==
    \/ a.date < b.date
    \/ a.date = b.date /\ a.hour < b.hour
    \/ a.date = b.date /\ a.hour = b.hour /\ a.fold < b.fold

\* C9: the timestamps of the measurements are strictly increasing in
\* wall-clock order from one measurement to the next, for every input.
C9_TimestampsStrictlyIncreasing ==
    \A i \in 1..(Len(results) - 1) :
        WallClockBefore(results[i].hour_start, results[i + 1].hour_start)

\* The hour a label names, read off the label's construction.
HourNamed(label) == CHOOSE h \in Hours : LabelOf(h) = label

StrictlyIncreasingHours(ls) ==
    \A i \in 1..(Len(ls) - 1) : HourNamed(ls[i].Label) < HourNamed(ls[i + 1].Label)

\* C10: for a non-empty input whose hour labels are strictly increasing,
\* every measurement has the start date, its row's hour and fold 0; one
\* measurement per row processed, none for an hour the labels skip.
C10_IncreasingHoursKeepDate ==
    (npc \in {"loop", "returned"} /\ lines # <<>> /\ StrictlyIncreasingHours(lines))
        => /\ Len(results) = idx - 1
           /\ npc = "returned" => Len(results) = Len(lines)
           /\ \A i \in 1..Len(results) :
                 /\ results[i].hour_start.date = start.date
                 /\ results[i].hour_start.hour = HourNamed(lines[i].Label)
                 /\ results[i].hour_start.fold = 0

\* C10's case: 0:00 followed directly by 2:00 (spring forward), then 12:00,
\* on a start date other than day 0.
C10_Witness ==
    /\ npc = "returned"
    /\ start.date = 3
    /\ Len(results) = 3
    /\ results[1].hour_start.hour = 0
    /\ results[2].hour_start.hour = 2
    /\ results[3].hour_start.hour = 12

\* The hours the rows of the input name.
HourOfRow(i) == HourNamed(lines[i].Label)

\* C11: a row labelled 0:00 that directly follows a row labelled 23:00 gets
\* the date of the 23:00 row plus one day and fold 0, wherever it occurs.
C11_MidnightAfter23RollsOver ==
    \A i \in 2..Len(results) :
        (HourOfRow(i - 1) = 23 /\ HourOfRow(i) = 0)
            => /\ results[i].hour_start.date = results[i - 1].hour_start.date + 1
               /\ results[i].hour_start.hour = 0
               /\ results[i].hour_start.fold = 0

\* C11's case: 23:00 -> 0:00 a second time, after an earlier rollover.
C11_Witness ==
    /\ Len(results) = 4
    /\ HourOfRow(1) = 23 /\ HourOfRow(2) = 0 /\ HourOfRow(3) = 23 /\ HourOfRow(4) = 0
    /\ results[4].hour_start.date = start.date + 2

\* C12: a row labelled h:00, h in 1..23, that directly follows a row with the
\* same label emitted with fold 0 is emitted with the same date, the same
\* hour and fold 1.
C12_RepeatedHourIsFold ==
    \A i \in 2..Len(results) :
        (HourOfRow(i) >= 1 /\ HourOfRow(i - 1) = HourOfRow(i)
                /\ results[i - 1].hour_start.fold = 0)
            => /\ results[i].hour_start.date = results[i - 1].hour_start.date
               /\ results[i].hour_start.hour = HourOfRow(i)
               /\ results[i].hour_start.fold = 1

\* C12's case: 0:00, 1:00, 1:00 (the autumn fallback).
C12_Witness ==
    /\ Len(results) = 3
    /\ HourOfRow(1) = 0 /\ HourOfRow(2) = 1 /\ HourOfRow(3) = 1
    /\ results[3].hour_start.fold = 1

\* C13: a row labelled 0:00 is never emitted with fold 1, and a 0:00 row
\* directly following a 0:00 row is dated one day later, with fold 0.
C13_MidnightNeverFolds ==
    \A i \in 1..Len(results) :
        HourOfRow(i) = 0
            => /\ results[i].hour_start.fold = 0
               /\ (i >= 2 /\ HourOfRow(i - 1) = 0)
                     => results[i].hour_start.date = results[i - 1].hour_start.date + 1

\* C13's case: 0:00 directly after 0:00.
C13_Witness ==
    /\ Len(results) = 2
    /\ HourOfRow(1) = 0 /\ HourOfRow(2) = 0
    /\ results[2].hour_start.date = start.date + 1

\* The input is whole days of 0:00..23:00 and the first hours of one more.
WholeDaysInput == \A i \in 1..Len(lines) : HourOfRow(i) = (i - 1) % 24

\* C14: for whole days of 0:00..23:00 followed by the first hours of a
\* further day, the row at index i (from 0) is emitted with date
\* start + floor(i / 24), hour i mod 24 and fold 0.
C14_WholeDays ==
    WholeDaysInput
        => \A i \in 1..Len(results) :
              /\ results[i].hour_start.date = start.date + ((i - 1) \div 24)
              /\ results[i].hour_start.hour = (i - 1) % 24
              /\ results[i].hour_start.fold = 0

\* C14's case: two whole days and two hours of a third, all processed.
C14_Witness ==
    /\ npc = "returned"
    /\ WholeDaysInput
    /\ Len(results) = 50
    /\ results[50].hour_start.date = start.date + 2
    /\ results[50].hour_start.hour = 1

\* A measurement's total is that of a row: the row's Read (in tenths) with
\* its fractional part dropped.
TruncationOf(n, tenths) ==
    /\ tenths >= 0 => (10 * n <= tenths /\ tenths < 10 * n + 10)
    /\ tenths <= 0 => (10 * n - 10 < tenths /\ tenths <= 10 * n)

\* C15: the output has one measurement per input row, in input order: the
\* i-th measurement carries the i-th row's hour and reading; empty input
\* gives empty output.
C15_OneMeasurementPerRow ==
    (npc \in {"loop", "returned"})
        => /\ Len(results) = idx - 1
           /\ npc = "returned" => Len(results) = Len(lines)
           /\ \A i \in 1..Len(results) :
                 /\ results[i].hour_start.hour = HourOfRow(i)
                 /\ TruncationOf(results[i].total, lines[i].Read)

\* C15's case: a returned output for an input with a repeated label.
C15_Witness ==
    /\ npc = "returned"
    /\ Len(lines) = 3
    /\ Len(results) = 3
    /\ HourOfRow(2) = 1 /\ HourOfRow(3) = 1

\* C16: a start that carries tzinfo is refused before any row is processed,
\* whatever the rows (none included), and nothing is returned.
C16_AwareStartRefused ==
    start.tzinfo # None
        => /\ npc \in {"check", "raised"}
           /\ results = <<>>
           /\ idx = 1

\* C16's case: the refusal, for the empty input.
C16_Witness ==
    /\ npc = "raised"
    /\ start.tzinfo # None
    /\ lines = <<>>

\* C17: usage and total are the row's Usage and Read with the fractional
\* part discarded (3.7 -> 3, -1.5 -> -1).
C17_TruncatedTowardZero ==
    \A i \in 1..Len(results) :
        /\ results[i].usage \in Int
        /\ results[i].total \in Int
        /\ TruncationOf(results[i].usage, lines[i].Usage)
        /\ TruncationOf(results[i].total, lines[i].Read)

\* C17's case: a usage of 3.7 emitted as 3.
C17_Witness ==
    /\ Len(results) >= 1
    /\ lines[1].Usage = 37
    /\ results[1].usage = 3

\* C18: every statistics record has state = the row's truncated Usage and
\* sum = the row's truncated Read minus the baseline, and the start of the
\* row's measurement; for another baseline every sum moves by exactly the
\* difference of the baselines while start and state stay the same.
C18_StatisticsRelativeToBaseline ==
    npc = "stats"
        => /\ Len(stats) = Len(lines)
           /\ \A i \in 1..Len(stats) :
                 LET read == stats[i].sum + initial_reading[1]
                 IN  /\ stats[i].start = results[i].hour_start
                     /\ TruncationOf(stats[i].state, lines[i].Usage)
                     /\ read % 10 = 0
                     /\ TruncationOf(read \div 10, lines[i].Read)
                     /\ \A b \in Baselines :
                           LET other == StatisticsOf(results, b)[i]
                           IN  /\ other.sum - stats[i].sum = initial_reading[1] - b
                               /\ other.start = stats[i].start
                               /\ other.state = stats[i].state

\* C18's case: one row read at 101.9 against a baseline of 100.5.
C18_Witness ==
    /\ npc = "stats"
    /\ initial_reading = Some(1005)
    /\ Len(stats) = 1
    /\ lines[1].Read = 1019
    /\ stats[1].sum = 5
    /\ stats[1].state = 1

\* The run of the handler is over.
FillOver == fpc \in {"done", "returned"}

\* The chunks a range has: ceil((end_date - start_date) / 7 days).
ChunksOfRange ==
    IF end_date > start_date
    THEN (end_date - start_date + ChunkDays - 1) \div ChunkDays
    ELSE 0

FetchFailed(f) == f.outcome \in {"login_error", "query_error"}

\* The statistics of the rows one fetch returned.
StatsOfFetch(f) ==
    IF f.outcome = "rows"
    THEN StatisticsOf(MeterUsageLinesToTimeseries([date |-> f.start, tzinfo |-> None],
                                                  f.lines),
                      f.baseline[1])
    ELSE <<>>

\* The statistics of the first n fetches, in order.
RECURSIVE StatsOfFetches(_)
StatsOfFetches(n) ==
    IF n = 0 THEN <<>> ELSE StatsOfFetches(n - 1) \o StatsOfFetch(fetches[n])

\* C19: when the fetch of a chunk fails, the run still fetches every chunk
\* of the range (each starting where the one before ended, the last ending
\* at end_date), and what is injected is exactly the statistics of the
\* chunks that returned rows, in order; the failing chunk adds nothing.
C19_FetchFailureIsolated ==
    (FillOver /\ \E i \in 1..Len(fetches) : FetchFailed(fetches[i]))
        => /\ Len(fetches) = ChunksOfRange
           /\ fetches[1].start = start_date
           /\ fetches[Len(fetches)].end = end_date
           /\ \A i \in 1..(Len(fetches) - 1) : fetches[i + 1].start = fetches[i].end
           /\ all_stats = StatsOfFetches(Len(fetches))
           /\ injected.consumption =
                 (IF all_stats = <<>> THEN None ELSE Some(StatsOfFetches(Len(fetches))))

\* C19's case: three chunks, the second fails, the first and the third
\* return rows, and the rows of both are injected.
C19_Witness ==
    /\ fpc = "done"
    /\ Len(fetches) = 3
    /\ fetches[1].outcome = "rows"
    /\ fetches[2].outcome = "query_error"
    /\ fetches[3].outcome = "rows"
    /\ Len(injected.consumption[1]) = 4

\* C20: once the login sequence has failed in a run, no further chunk is
\* fetched and no further login attempt is made in that run.
C20_LoginFailureEndsRun ==
    /\ \A i \in 1..Len(fetches) :
          fetches[i].outcome = "login_error" => i = Len(fetches)
    /\ history.failed >= 1 => urandom = 1


\* C21: the chunks are requested one after another (a chunk only once the
\* request before it is over), each spans at most 7 days, the first starts
\* at start_date, each later one starts where the one before ended, and the
\* last ends at end_date; for start_date >= end_date nothing is requested.
C21_ChunksInSequence ==
    /\ \A i \in 1..Len(fetches) :
          /\ fetches[i].start < fetches[i].end
          /\ fetches[i].end - fetches[i].start <= ChunkDays
          /\ fetches[i].end <= end_date
          /\ i < Len(fetches) => /\ fetches[i].outcome # "pending"
                                 /\ fetches[i + 1].start = fetches[i].end
    /\ fetches # <<>> => fetches[1].start = start_date
    /\ start_date >= end_date => (fetches = <<>> /\ calls = 0)
    /\ (FillOver /\ start_date < end_date)
          => (fetches # <<>> /\ fetches[Len(fetches)].end = end_date)

\* C21's case: the range of days 2..12 is over, asked for as 2..9 and 9..12.
C21_Witness ==
    /\ FillOver
    /\ start_date = 2
    /\ end_date = 12
    /\ Len(fetches) = 2
    /\ fetches[1].end = 9
    /\ fetches[2].start = 9
    /\ fetches[2].end = 12


\* C22: a response without a Lines field, or with Lines null, gives a
\* MeterUsage whose Lines is the empty sequence, and no error; a list gives
\* one Line per element, in order.
C22_MissingLinesGiveEmpty ==
    \A i \in 1..Len(queries) :
        LET q == queries[i]
        IN  q.status = "ok"
               => /\ ~q.raised
                  /\ q.result = (IF q.body.has_lines /\ q.body.Lines # None
                                 THEN q.body.Lines[1] ELSE <<>>)

\* The part of C22 the code keeps: null gives the empty sequence, a list
\* its rows.
NullLinesGiveEmpty ==
    \A i \in 1..Len(queries) :
        LET q == queries[i]
        IN  (q.status = "ok" /\ q.body.has_lines)
               => /\ ~q.raised
                  /\ q.result = (IF q.body.Lines # None THEN q.body.Lines[1] ELSE <<>>)

\* C23: a non-success HTTP status of the consumption query makes
\* get_meter_usage raise, no MeterUsage is returned, and _authenticated is
\* what it was before the query.
C23_QueryErrorKeepsFlag ==
    /\ \A i \in 1..Len(queries) :
          LET q == queries[i]
          IN  q.status = "http_error"
                 => /\ q.raised
                    /\ q.result = <<>>
                    /\ q.after = q.authenticated
    /\ \A c \in Callers :
          (call[c].query_sent /\ Len(queries) >= 1 /\ Last(queries).caller = c
                /\ Last(queries).call = calls /\ Last(queries).status = "http_error")
              => (pc[c] = "idle" => call[c].outcome = "query_error")

\* C23's case: a query of a logged-in instance answered with an error
\* status, after which the instance is still logged in.
C23_Witness ==
    /\ Len(queries) = 2
    /\ queries[1].status = "ok"
    /\ queries[2].status = "http_error"
    /\ queries[2].authenticated
    /\ authenticated
    /\ call["c1"].outcome = "query_error"


\* The measurements of one fetch's rows, each with the baseline its
\* statistics were computed against.
MeasuredOfFetch(f) ==
    IF f.outcome = "rows"
    THEN LET ms == MeterUsageLinesToTimeseries([date |-> f.start, tzinfo |-> None],
                                               f.lines)
         IN  [i \in 1..Len(ms) |-> [m |-> ms[i], baseline |-> f.baseline[1]]]
    ELSE <<>>

RECURSIVE MeasuredOfFetches(_)
MeasuredOfFetches(n) ==
    IF n = 0 THEN <<>> ELSE MeasuredOfFetches(n - 1) \o MeasuredOfFetch(fetches[n])

\* C24 as stated: the cost series has the length and the timestamps of the
\* measurements, costIncrement = usage * unit cost and cumulativeCost =
\* the measurement's cumulative total * unit cost.
C24_CostOfCumulativeTotal ==
    fpc = "done"
        => LET ms == MeasuredOfFetches(Len(fetches))
               cost == injected.cost[1]
           IN  /\ Len(cost) = Len(ms)
               /\ \A i \in 1..Len(ms) :
                     /\ cost[i].start = ms[i].m.hour_start
                     /\ cost[i].state = ms[i].m.usage * cost_per_cubic_metre
                     /\ cost[i].sum = (10 * ms[i].m.total) * cost_per_cubic_metre

\* C24, amended: the cost series is parallel to the consumption series (same
\* length, same timestamps in order), costIncrement = usage * unit cost, and
\* cumulativeCost = (cumulative total - baseline) * unit cost, which is the
\* consumption record's sum times the unit cost.
C24_CostOfSum ==
    fpc = "done"
        => LET ms == MeasuredOfFetches(Len(fetches))
               cons == injected.consumption[1]
               cost == injected.cost[1]
           IN  /\ Len(cost) = Len(ms)
               /\ Len(cons) = Len(ms)
               /\ \A i \in 1..Len(ms) :
                     /\ cost[i].start = ms[i].m.hour_start
                     /\ cost[i].start = cons[i].start
                     /\ cost[i].state = ms[i].m.usage * cost_per_cubic_metre
                     /\ cost[i].sum = (10 * ms[i].m.total - ms[i].baseline)
                                          * cost_per_cubic_metre
                     /\ cost[i].sum = cons[i].sum * cost_per_cubic_metre

\* C24's case: two chunks with rows, priced at 3 per cubic metre; the first
\* row (Usage 1.0, Read 101.9 kept as 101, baseline 100.9) has cost 1 * 3 and
\* cumulative cost 0.1 * 3.
C24_Witness ==
    /\ fpc = "done"
    /\ cost_per_cubic_metre = 3
    /\ Len(injected.cost[1]) = 4
    /\ injected.consumption[1][1].sum = 1
    /\ injected.cost[1][1].state = 3
    /\ injected.cost[1][1].sum = 3


\* C25: the timestamp of every returned measurement is timezone-aware and
\* carries the zone asked for, whatever date and fold were resolved for it;
\* so does the start of every statistics record built from it.
C25_TimestampsCarryZone ==
    /\ \A i \in 1..Len(results) :
          /\ results[i].hour_start.tzinfo # None
          /\ results[i].hour_start.tzinfo = Some(tz)
    /\ \A i \in 1..Len(stats) : stats[i].start.tzinfo = Some(tz)

\* C25's case: another zone than the default, a rollover and a fold.
C25_Witness ==
    /\ npc = "returned"
    /\ tz = "America/New_York"
    /\ Len(results) = 4
    /\ results[2].hour_start.date = start.date + 1
    /\ results[4].hour_start.fold = 1
    /\ results[4].hour_start.tzinfo = Some("America/New_York")


\* C26: there is no lock.  A call that finds _authenticated false runs the
\* whole login sequence itself before its query, also while another call's
\* login is running on the same session; and each _generate_pkce replaces
\* the instance's verifier and challenge, so the verifier a token request
\* sends is the last one generated by either call.
C26_NoLocking ==
    /\ \A c \in Callers :
          (call[c].outcome # "none" /\ call[c].logins_before = 0 /\ pc[c] = "query")
              => call[c].login_requests = RequestsOfLogin
    /\ pkce_verifier # None
          => /\ pkce_verifier = Some(urandom)
             /\ pkce_challenge = Some(PkceChallengeOf(urandom))
    /\ \A c \in Callers :
          \A i \in 1..Len(log[c]) :
              log[c][i].req = "token" => log[c][i].verifier[1] \in history.verifiers

\* C26's case: both calls found the instance unauthenticated and are in
\* their login sequences at once; "c2" replaced the verifier "c1" had
\* generated, and the token request of "c1" carried the verifier of "c2".
C26_Witness ==
    /\ call["c1"].logins_before = 0
    /\ call["c2"].logins_before = 0
    /\ pc["c2"] \notin {"idle", "query"}
    /\ Len(log["c1"]) >= 5
    /\ log["c1"][1].verifier = Some(1)
    /\ log["c2"] # <<>>
    /\ log["c2"][1].verifier = Some(2)
    /\ log["c1"][5].req = "token"
    /\ log["c1"][5].verifier = Some(2)


\* C27: in every login attempt the code_verifier the token request carries
\* is the verifier _generate_pkce produced in that attempt, and the
\* code_challenge the attempt's authorize request carried is the challenge
\* of that verifier.
C27_VerifierOfSameAttempt ==
    \A c \in SeqCallers :
        \A i \in 1..Len(log[c]) :
            /\ log[c][i].req = "authorize"
                  => log[c][i].challenge = Some(PkceChallengeOf(log[c][1].verifier[1]))
            /\ log[c][i].req = "token"
                  => /\ log[c][1].req = "pkce"
                     /\ log[c][i].verifier = log[c][1].verifier
                     /\ log[c][2].challenge = Some(PkceChallengeOf(log[c][i].verifier[1]))

\* C27's case: the token request of a second attempt, after a failed first
\* one, carries the second attempt's verifier.
C27_Witness ==
    /\ history.failed >= 1
    /\ Len(log["c1"]) >= 5
    /\ log["c1"][1].verifier = Some(2)
    /\ log["c1"][5].req = "token"
    /\ log["c1"][5].verifier = Some(2)


\* C28: in one run every chunk's statistics are computed against the same
\* baseline, also when hass.data[DOMAIN]["initial_reading"] is written
\* while the handler awaits a fetch.
C28_OneBaselinePerRun ==
    \A i, j \in 1..Len(fetches) :
        (fetches[i].outcome = "rows" /\ fetches[j].outcome = "rows")
            => fetches[i].baseline = fetches[j].baseline


\* C29: in one run the handler writes hass.data[DOMAIN]["initial_reading"]
\* at the first chunk that returns rows, to Read - Usage of that chunk's
\* first row and whatever was configured before, and at no other chunk:
\* once if some chunk returns rows, never otherwise.
C29_BaselineWrittenOnce ==
    \A i \in 1..Len(fetches) :
        LET f == fetches[i]
            first == /\ f.outcome = "rows"
                     /\ \A j \in 1..(i - 1) : fetches[j].outcome # "rows"
        IN  /\ first => f.wrote = Some(f.lines[1].Read - f.lines[1].Usage)
            /\ ~first => f.wrote = None
            /\ (fpc = "loop" /\ i = Len(fetches) /\ first)
                  => hass_initial_reading = f.wrote

\* C29's case: the first chunk fails, the second
\* returns rows and the baseline is written from its first row, the third
\* returns rows and nothing is written.
C29_Witness ==
    /\ FillOver
    /\ Len(fetches) = 3
    /\ FetchFailed(fetches[1])
    /\ fetches[2].outcome = "rows"
    /\ fetches[2].wrote = Some(2015)
    /\ fetches[3].outcome = "rows"
    /\ fetches[3].wrote = None
    /\ fetches[3].baseline = Some(2015)
    /\ hass_initial_reading = Some(2015)


\* C30: whatever the range and whatever each fetch does (raises, returns no
\* rows, returns rows), the chunk loop ends, after exactly
\* ceil((end_date - start_date) / 7 days) fetches and never more.
C30_LoopTerminates ==
    /\ [](Len(fetches) <= ChunksOfRange)
    /\ <>(FillOver /\ Len(fetches) = ChunksOfRange)

\* C30's case: a range of two chunks is over after a fetch that raised and
\* one that returned rows.
C30_Witness ==
    /\ FillOver
    /\ ChunksOfRange = 2
    /\ Len(fetches) = 2
    /\ FetchFailed(fetches[1])
    /\ fetches[2].outcome = "rows"


\* The date the function held before row i: start's date before the first
\* row, the date of the measurement before otherwise.
DateBeforeRow(i) == IF i = 1 THEN start.date ELSE results[i - 1].hour_start.date

\* C32: over any rows the current date never decreases and advances by at
\* most one day per row; it advances on exactly the rows whose hour is <=
\* the hour of the row before and that are not resolved as a fold.
C32_DateAdvancesOnRollover ==
    /\ \A i \in 1..Len(results) :
          LET step == results[i].hour_start.date - DateBeforeRow(i)
              backwards == i >= 2 /\ HourOfRow(i) <= HourOfRow(i - 1)
          IN  /\ step \in {0, 1}
              /\ step = 1 <=> (backwards /\ results[i].hour_start.fold = 0)
    /\ (npc \in {"loop", "returned", "stats"} /\ results # <<>>)
          => current_date = Last(results).hour_start.date
    /\ (npc \in {"loop", "returned", "stats"} /\ results = <<>>)
          => current_date = start.date

\* C32's case: 1:00, 1:00, 0:00, 0:00: a fold that keeps the date, then two
\* rows that advance it.
C32_Witness ==
    /\ Len(results) = 4
    /\ HourOfRow(1) = 1 /\ HourOfRow(2) = 1 /\ HourOfRow(3) = 0 /\ HourOfRow(4) = 0
    /\ results[2].hour_start.fold = 1
    /\ results[2].hour_start.date = start.date
    /\ results[3].hour_start.date = start.date + 1
    /\ current_date = start.date + 2


\* C33: _authenticated never goes from true to false, whatever step is
\* taken (a failing query included), and a call entered while it is true
\* goes straight to the query, without the login sequence.
C33_FlagNeverReset ==
    [][ /\ authenticated => authenticated'
        /\ \A c \in Callers :
              (authenticated /\ pc[c] = "idle" /\ pc'[c] # "idle")
                  => (pc'[c] = "query" /\ log'[c] = log[c]) ]_vars

\* C33's case: after a login the first query failed, and the next call sent
\* its query without a login request of its own.
C33_Witness ==
    /\ authenticated
    /\ Len(queries) = 2
    /\ queries[1].raised
    /\ queries[1].authenticated
    /\ queries[2].call = 2
    /\ call["c1"].login_requests = 0
    /\ call["c1"].logins_before = 1
    /\ call["c1"].query_sent
    /\ history.succeeded = 1

\* What an update wrote: statistics handed to the recorder, or a new state.
UpdateWrote(u) ==
    \/ u.consumption # None
    \/ u.cost # None
    \/ u.state_after # u.state_before

\* C31: an update of the sensor injects statistics and changes the sensor's
\* state only when its fetch returned at least one row and hass.data holds a
\* baseline; when the fetch returned no rows, or no baseline is set, neither
\* consumption nor cost statistics are injected and the state stays what it
\* was.  While no update is between its fetch and its return, the state and
\* the injected statistics are those the last writing update left.
C31_UpdateWritesOnlyWithRowsAndBaseline ==
    /\ \A i \in 1..Len(updates) :
          LET u == updates[i]
          IN  /\ UpdateWrote(u)
                    => (u.outcome = "injected" /\ u.rows # <<>> /\ u.baseline # None)
              /\ (u.outcome = "empty" \/ u.baseline = None)
                    => (/\ u.consumption = None
                        /\ u.cost = None
                        /\ u.state_after = u.state_before)
              /\ (u.outcome = "empty") <=> (u.outcome \notin {"pending", "raised"}
                                            /\ u.rows = <<>>)
              /\ u.state_before = (IF i = 1 THEN None ELSE updates[i - 1].state_after)
    /\ updates # <<>> => sensor_state = Last(updates).state_after
    /\ (\A i \in 1..Len(updates) : updates[i].outcome # "injected")
          => (sensor_state = None /\ injected = [consumption |-> None, cost |-> None])

\* A first update found rows but no baseline and left the state None; the
\* baseline was written while the second update was fetching, and that
\* update injected both series and set the state to Read - baseline.
C31_Witness ==
    /\ Len(updates) = 2
    /\ upc = "idle"
    /\ updates[1].outcome = "no_baseline"
    /\ updates[1].rows # <<>>
    /\ updates[1].state_after = None
    /\ updates[2].outcome = "injected"
    /\ updates[2].baseline = Some(500)
    /\ sensor_state = Some(Last(updates[2].rows).Read - 500)
    /\ injected.consumption # None
    /\ injected.cost # None

\* No async_setup_entry or async_unload_entry call is suspended in its await.
NoEntryCallRunning == \A e \in Entries : entry_state[e] \in {"not_loaded", "loaded"}
SetUpEntries == {e \in Entries : entry_state[e] = "loaded"}

\* C34: after any sequence of async_setup_entry and async_unload_entry calls
\* on distinct config entries the fill_historical_data service is registered
\* exactly if some entry is set up; a set-up entry always finds the service;
\* async_register is called only while the service is absent, so it is never
\* registered twice over; and async_remove is called only by the unload that
\* leaves no entry behind.
C34_ServiceIffEntrySetUp ==
    /\ [](/\ NoEntryCallRunning => (has_service <=> SetUpEntries # {})
          /\ SetUpEntries # {} => has_service
          /\ service_calls.registers - service_calls.removes
                = (IF has_service THEN 1 ELSE 0))
    /\ [][ /\ service_calls'.registers # service_calls.registers
               => (~has_service /\ has_service')
           /\ service_calls'.removes # service_calls.removes
               => (/\ has_service /\ ~has_service'
                   /\ \A e \in Entries : entry_state'[e] = "not_loaded"
                   /\ \E e \in Entries : entry_state[e] = "unloading") ]_vars

\* Three setups and the unloads between them: the service was registered
\* twice and removed once, so one setup found it registered and one unload
\* left it; one entry is set up now and the service is there.
C34_Witness ==
    /\ service_calls = [setups |-> 3, registers |-> 2, removes |-> 1]
    /\ has_service
    /\ Cardinality(SetUpEntries) = 1
    /\ NoEntryCallRunning
    /\ "initial_reading_entity" \in DOMAIN domain_data

====
